---- MODULE Spec2Model ----
(***************************************************************************)
(* minikv: a concurrent key-value store (sync.Map) with per-item           *)
(* expiration, an expiration index (kv.exp) owned by the janitor           *)
(* goroutine, and three buffered channels carrying index events from the   *)
(* callers to the janitor.  Modelled from src/minikv.go, lines 241-569.    *)
(*                                                                         *)
(* Every sync.Map operation (Load, Store, Delete) and every channel        *)
(* operation is one atomic step; a caller's method is the sequence of its  *)
(* steps, so callers and the janitor interleave between them.              *)
(***************************************************************************)
EXTENDS Integers, Sequences, FiniteSets, TLC

\* ------------------------------------------------------------------ bounds
Keys    == {"a", "b"}
Values  == {"v1", "v2"}
Callers == {1, 2}
\* the clock runs over 1..MaxTime (UnixNano scaled to small integers; the
\* real clock is always positive, so the model's clock starts at 1), and a
\* Set is started only if the expiration it asks for is before MaxTime, so
\* that every bucket's timestamp is eventually in the past
MaxTime == 5
\* explicit ttl arguments of Set are 1..MaxTTL
MaxTTL == 1
\* total number of method calls the callers start
MaxOps == 3
\* capacity of each event channel (make(chan ..., 10) in New, scaled down)
ChanCap == 2

\* --------------------------------------------------------------- constants
NoExpiration == -1
DefaultExpiration == 0

\* the zero value of Item: what a named result holds when never assigned
ZeroItem == [Key |-> "", Object |-> "nil", Expiration |-> 0]

VARIABLES
    now,                \* time.Now().UnixNano()
    defaultExpiration,  \* kv.defaultExpiration
    cleanupInterval,    \* kv.cleanupInterval
    items,              \* kv.items: key -> Item, a partial function
    onDeleted,          \* kv.onDeleted # nil
    onEvicted,          \* kv.onEvicted # nil
    metaAdd,            \* kv.metaAdd    (channel contents, oldest first)
    metaUpdate,         \* kv.metaUpdate
    metaDelete,         \* kv.metaDelete
    exp,                \* kv.exp: expiration -> set of keys, partial
    proc,               \* per caller: position and locals of its method call
    jan,                \* the janitor's position and locals
    nops,               \* number of method calls started
    fired,              \* ghost: callback invocations spawned by the last step
    removed,            \* ghost: items physically removed by the last step
    lastWrite,          \* ghost: per key, the last write a caller committed
    done                \* ghost: per caller, its last completed call

vars == <<now, defaultExpiration, cleanupInterval, items, onDeleted, onEvicted,
          metaAdd, metaUpdate, metaDelete, exp, proc, jan, nops,
          fired, removed, lastWrite, done>>

config == <<defaultExpiration, cleanupInterval>>
chans  == <<metaAdd, metaUpdate, metaDelete>>

\* ------------------------------------------------------------ map helpers
\* the empty sync.Map / the empty Go map
EmptyMap == [x \in {} |-> ZeroItem]

\* sync.Map.Load's found result / map lookup's found result
Found(m, k) == k \in DOMAIN m

\* sync.Map.Store / m[k] = v
Store(m, k, v) == [x \in (DOMAIN m) \cup {k} |-> IF x = k THEN v ELSE m[x]]

\* sync.Map.Delete / delete(m, k)
Remove(m, k) == [x \in (DOMAIN m) \ {k} |-> m[x]]

\* a send on a buffered channel can proceed
CanSend(ch) == Len(ch) < ChanCap

\* -------------------------------------------------------------- pure reads
Get_IgnoresExpiration(k) ==
    IF Found(items, k) THEN <<items[k].Object, TRUE>> ELSE <<"nil", FALSE>>

Get(k) ==
    IF Found(items, k) /\ items[k].Expiration > now
    THEN <<items[k].Object, TRUE>>
    ELSE <<"nil", FALSE>>

IsExist(k) == Found(items, k) /\ items[k].Expiration > now

IsExpired(k) ==
    IF Found(items, k)
    THEN <<~(items[k].Expiration > now), "nil">>
    ELSE <<FALSE, "NotFound">>

ItemCount == Cardinality({k \in DOMAIN items : items[k].Expiration > now})

ItemCountAll == Cardinality(DOMAIN items)

\* Set's switch on exp: the absolute expiration of the new item
ExpiredAt(ttl) ==
    IF ttl = DefaultExpiration THEN now + defaultExpiration
    ELSE IF ttl = NoExpiration THEN 0
    ELSE now + ttl

\* ------------------------------------------------------------------- Init
IdleProc == [pc |-> "idle", key |-> "", item |-> ZeroItem, prior |-> ZeroItem,
             found |-> FALSE, todo |-> {}, ttl |-> 0, at |-> 0,
             second |-> FALSE]

IdleJan == [pc |-> "select", expired |-> 0, todo |-> {}, key |-> "",
            item |-> ZeroItem, origin |-> "none"]

NoneDone == [op |-> "none", key |-> "", ret |-> "nil", found |-> FALSE,
             second |-> FALSE]

NoWrite == [op |-> "none", value |-> "nil", exp |-> 0]

\* lines 294-309: the state New(defaultExpiration, cleanupInterval) returns
New(d, ci) ==
    /\ now = 1
    /\ defaultExpiration = d
    /\ cleanupInterval = ci
    /\ items = EmptyMap
    /\ onDeleted = FALSE
    /\ onEvicted = FALSE
    /\ metaAdd = <<>>
    /\ metaUpdate = <<>>
    /\ metaDelete = <<>>
    /\ exp = EmptyMap
    /\ proc = [c \in Callers |-> IdleProc]
    /\ jan = IdleJan
    /\ nops = 0
    /\ fired = {}
    /\ removed = {}
    /\ lastWrite = [k \in Keys |-> NoWrite]
    /\ done = [c \in Callers |-> NoneDone]

\* a store constructed with a positive cleanup interval
Init == New(MaxTTL + 1, 1)

\* a store constructed with the sweeper switched off
NoCleanupInit == New(MaxTTL + 1, NoExpiration)

\* ------------------------------------------------------------ ghost helpers
\* the record of a completed call of caller c
Completed(c, op, k, ret) ==
    [op |-> op, key |-> k, ret |-> ret,
     found |-> proc[c].found, second |-> proc[c].second]

\* the expiration the caller of Set(k, v, ttl) at clock reading t asks for:
\* never (0), or t plus the ttl, the configured default standing in for
\* DefaultExpiration
Deadline(t, ttl) ==
    IF ttl = NoExpiration THEN 0
    ELSE t + (IF ttl = DefaultExpiration THEN defaultExpiration ELSE ttl)

\* a callback invocation: the function, its two arguments, and (ghost) who
\* spawned it, for which key and loaded item, and which kind of write was the
\* last one to that key when the item was loaded
Invocation(fn, key, arg, by, k, item, origin) ==
    [fn |-> fn, key |-> key, arg |-> arg, by |-> by, target |-> k,
     item |-> item, origin |-> origin]

\* what one step removes from the Store when it deletes key k
Removal(by, k) ==
    IF Found(items, k) THEN {[by |-> by, key |-> k, item |-> items[k]]} ELSE {}

Quiet == fired' = {} /\ removed' = {}

\* an index event as it travels in a channel: the fields of meta (and of
\* updateMeta), and (ghost) the key whose Store mutation emitted it and the
\* ordinal of the call that made that mutation
Meta(key, expiration, k) ==
    [Key |-> key, Expiration |-> expiration, of |-> k, n |-> nops]

UpdateMeta(key, expiration, prior, k) ==
    [Key |-> key, Expiration |-> expiration, PriorExpiration |-> prior,
     of |-> k, n |-> nops]

\* The application registers its two callbacks right after New, before its
\* first call (as TestJanitor does); the janitor runs from New on.
Registered == onDeleted /\ onEvicted

\* caller c is between two calls and may start one
CanCall(c) == Registered /\ proc[c].pc = "idle" /\ nops < MaxOps

\* -------------------------------------------------------------------- Set
\* lines 325-343: compute expiredAt, build the item, Load the prior item
SetLoad(c, k, v, ttl) ==
    /\ CanCall(c)
    /\ ExpiredAt(ttl) < MaxTime
    /\ nops' = nops + 1
    /\ proc' = [proc EXCEPT ![c] =
                  [IdleProc EXCEPT
                     !.pc = "SetStore", !.key = k,
                     !.item = [Key |-> k, Object |-> v, Expiration |-> ExpiredAt(ttl)],
                     !.found = Found(items, k),
                     !.prior = IF Found(items, k) THEN items[k] ELSE ZeroItem,
                     !.ttl = ttl, !.at = now]]
    /\ Quiet
    /\ UNCHANGED <<now, config, items, onDeleted, onEvicted, chans, exp, jan,
                   lastWrite, done>>

\* lines 344 and 353: kv.items.Store(key, item); lines 355, 364: return when
\* the key was present and the expiration did not change
SetStore(c) ==
    LET p == proc[c] IN
    /\ p.pc = "SetStore"
    /\ items' = Store(items, p.key, p.item)
    /\ lastWrite' = [lastWrite EXCEPT ![p.key] =
                       [op |-> "Set", value |-> p.item.Object,
                        exp |-> Deadline(p.at, p.ttl)]]
    /\ IF ~p.found
       THEN /\ proc' = [proc EXCEPT ![c].pc = "SetSendAdd"]
            /\ done' = done
       ELSE IF p.item.Expiration # p.prior.Expiration
       THEN /\ proc' = [proc EXCEPT ![c].pc = "SetSendUpdate"]
            /\ done' = done
       ELSE /\ proc' = [proc EXCEPT ![c] = IdleProc]
            /\ done' = [done EXCEPT ![c] =
                          Completed(c, "Set", p.key, "nil")]
    /\ Quiet
    /\ UNCHANGED <<now, config, onDeleted, onEvicted, chans, exp, jan, nops>>

\* lines 346-349: kv.metaAdd <- meta{item.Key, item.Expiration}
SetSendAdd(c) ==
    LET p == proc[c] IN
    /\ p.pc = "SetSendAdd"
    /\ CanSend(metaAdd)
    /\ metaAdd' = Append(metaAdd, Meta(p.item.Key, p.item.Expiration, p.key))
    /\ proc' = [proc EXCEPT ![c] = IdleProc]
    /\ done' = [done EXCEPT ![c] =
                  Completed(c, "Set", p.key, "nil")]
    /\ Quiet
    /\ UNCHANGED <<now, config, items, onDeleted, onEvicted, metaUpdate,
                   metaDelete, exp, jan, nops, lastWrite>>

SetSendUpdate_SwapsExpirations(c) ==
    LET p == proc[c] IN
    /\ p.pc = "SetSendUpdate"
    /\ CanSend(metaUpdate)
    /\ metaUpdate' = Append(metaUpdate,
                            UpdateMeta(p.key, p.prior.Expiration,
                                       p.item.Expiration, p.key))
    /\ proc' = [proc EXCEPT ![c] = IdleProc]
    /\ done' = [done EXCEPT ![c] =
                  Completed(c, "Set", p.key, "nil")]
    /\ Quiet
    /\ UNCHANGED <<now, config, items, onDeleted, onEvicted, metaAdd,
                   metaDelete, exp, jan, nops, lastWrite>>

\* lines 356-362: kv.metaUpdate <- updateMeta{key, expiredAt, prior}
SetSendUpdate(c) ==
    LET p == proc[c] IN
    /\ p.pc = "SetSendUpdate"
    /\ CanSend(metaUpdate)
    /\ metaUpdate' = Append(metaUpdate,
                            UpdateMeta(p.key, p.item.Expiration,
                                       p.prior.Expiration, p.key))
    /\ proc' = [proc EXCEPT ![c] = IdleProc]
    /\ done' = [done EXCEPT ![c] =
                  Completed(c, "Set", p.key, "nil")]
    /\ Quiet
    /\ UNCHANGED <<now, config, items, onDeleted, onEvicted, metaAdd,
                   metaDelete, exp, jan, nops, lastWrite>>

\* ----------------------------------------------------------------- Update
\* lines 369-376: Load; return the error when absent; item.Object = value
UpdateLoad(c, k, v) ==
    /\ CanCall(c)
    /\ nops' = nops + 1
    /\ IF Found(items, k)
       THEN /\ proc' = [proc EXCEPT ![c] =
                          [IdleProc EXCEPT
                             !.pc = "UpdateStore", !.key = k, !.found = TRUE,
                             !.prior = items[k],
                             !.item = [items[k] EXCEPT !.Object = v]]]
            /\ done' = done
       ELSE /\ proc' = [proc EXCEPT ![c] = IdleProc]
            /\ done' = [done EXCEPT ![c] =
                          [NoneDone EXCEPT !.op = "Update", !.key = k,
                                           !.ret = "NotFound"]]
    /\ Quiet
    /\ UNCHANGED <<now, config, items, onDeleted, onEvicted, chans, exp, jan,
                   lastWrite>>

\* line 377: kv.items.Store(key, item)
UpdateStore(c) ==
    LET p == proc[c] IN
    /\ p.pc = "UpdateStore"
    /\ items' = Store(items, p.key, p.item)
    /\ lastWrite' = [lastWrite EXCEPT ![p.key] =
                       [op |-> "Update", value |-> p.item.Object,
                        exp |-> p.prior.Expiration]]
    /\ proc' = [proc EXCEPT ![c].pc = "UpdateSend"]
    /\ Quiet
    /\ UNCHANGED <<now, config, onDeleted, onEvicted, chans, exp, jan, nops,
                   done>>

\* lines 379-384: kv.metaAdd <- meta{item.Key, item.Expiration}; return nil
UpdateSend(c) ==
    LET p == proc[c] IN
    /\ p.pc = "UpdateSend"
    /\ CanSend(metaAdd)
    /\ metaAdd' = Append(metaAdd, Meta(p.item.Key, p.item.Expiration, p.key))
    /\ proc' = [proc EXCEPT ![c] = IdleProc]
    /\ done' = [done EXCEPT ![c] =
                  Completed(c, "Update", p.key, "nil")]
    /\ Quiet
    /\ UNCHANGED <<now, config, items, onDeleted, onEvicted, metaUpdate,
                   metaDelete, exp, jan, nops, lastWrite>>

\* ------------------------------------------------------------ deleteInner
DeleteInnerFired_IgnoresFound(by, k) ==
    IF onDeleted
    THEN {Invocation("onDeleted", k, <<"object", "nil">>, by, k, ZeroItem,
                     lastWrite[k].op)}
    ELSE {}

\* lines 415-418: the onDeleted callback deleteInner spawns for a loaded item
DeleteInnerFired(by, k) ==
    IF Found(items, k) /\ onDeleted
    THEN {Invocation("onDeleted", k, <<"object", items[k].Object>>, by, k,
                     items[k], lastWrite[k].op)}
    ELSE {}

\* lines 413-423: the Item deleteInner returns.  The loaded item is assigned
\* to a local val declared inside the if block (line 415), which shadows the
\* named result val; the function returns the named result, the zero Item.
DeleteInnerResult(loaded) == ZeroItem

\* ----------------------------------------------------------------- Delete
\* lines 402-405 and 414-418, 420-422: deleteInner's Load; the error return
\* when the key is absent; the go kv.onDeleted(...) when it is present
DeleteLoad(c, k) ==
    LET again == done[c].op = "Delete" /\ done[c].key = k /\ done[c].ret = "nil" IN
    /\ CanCall(c)
    /\ nops' = nops + 1
    /\ IF Found(items, k)
       THEN /\ proc' = [proc EXCEPT ![c] =
                          [IdleProc EXCEPT
                             !.pc = "DeleteDelete", !.key = k, !.found = TRUE,
                             !.prior = items[k], !.second = again]]
            /\ done' = done
       ELSE /\ proc' = [proc EXCEPT ![c] = IdleProc]
            /\ done' = [done EXCEPT ![c] =
                          [NoneDone EXCEPT !.op = "Delete", !.key = k,
                                           !.ret = "NotFound", !.second = again]]
    /\ fired' = DeleteInnerFired("Delete", k)
    /\ removed' = {}
    /\ UNCHANGED <<now, config, items, onDeleted, onEvicted, chans, exp, jan,
                   lastWrite>>

DeleteDelete_SkipsDelete(c) ==
    LET p == proc[c] IN
    /\ p.pc = "DeleteDelete"
    /\ proc' = [proc EXCEPT ![c].pc = "DeleteSend",
                            ![c].item = DeleteInnerResult(p.prior)]
    /\ lastWrite' = [lastWrite EXCEPT ![p.key] = [NoWrite EXCEPT !.op = "Delete"]]
    /\ Quiet
    /\ UNCHANGED <<now, config, items, onDeleted, onEvicted, chans, exp, jan,
                   nops, done>>

\* line 419: kv.items.Delete(key); line 423: return val, err
DeleteDelete(c) ==
    LET p == proc[c] IN
    /\ p.pc = "DeleteDelete"
    /\ items' = Remove(items, p.key)
    /\ removed' = Removal("Delete", p.key)
    /\ fired' = {}
    /\ lastWrite' = [lastWrite EXCEPT ![p.key] = [NoWrite EXCEPT !.op = "Delete"]]
    /\ proc' = [proc EXCEPT ![c].pc = "DeleteSend",
                            ![c].item = DeleteInnerResult(p.prior)]
    /\ UNCHANGED <<now, config, onDeleted, onEvicted, chans, exp, jan, nops,
                   done>>

\* lines 406-410: kv.metaDelete <- meta{itm.Key, itm.Expiration}; return nil
DeleteSend(c) ==
    LET p == proc[c] IN
    /\ p.pc = "DeleteSend"
    /\ CanSend(metaDelete)
    /\ metaDelete' = Append(metaDelete,
                            Meta(p.item.Key, p.item.Expiration, p.key))
    /\ proc' = [proc EXCEPT ![c] = IdleProc]
    /\ done' = [done EXCEPT ![c] = Completed(c, "Delete", p.key, "nil")]
    /\ Quiet
    /\ UNCHANGED <<now, config, items, onDeleted, onEvicted, metaAdd,
                   metaUpdate, exp, jan, nops, lastWrite>>

\* ------------------------------------------------------------------ Flush
\* line 532: kv.items.Range(...) starts; Range visits each key at most once,
\* at some point during the call
FlushBegin(c) ==
    /\ CanCall(c)
    /\ nops' = nops + 1
    /\ proc' = [proc EXCEPT ![c] = [IdleProc EXCEPT !.pc = "FlushRange",
                                                    !.todo = Keys]]
    /\ Quiet
    /\ UNCHANGED <<now, config, items, onDeleted, onEvicted, chans, exp, jan,
                   lastWrite, done>>

\* the Store after Range's callback ran for key k (line 533)
FlushVisit_KeepsItem(m, k) == m

FlushVisit(m, k) == Remove(m, k)

\* lines 532-535: one iteration of Range: kv.items.Delete(key) if the key is
\* there; line 536: return after the last one
FlushStep(c, k) ==
    LET p == proc[c] IN
    /\ p.pc = "FlushRange"
    /\ k \in p.todo
    /\ items' = FlushVisit(items, k)
    /\ removed' = {r \in Removal("Flush", k) : ~Found(items', k)}
    /\ fired' = {}
    /\ lastWrite' = [lastWrite EXCEPT ![k] =
                       [NoWrite EXCEPT
                          !.op = "Flush",
                          !.value = IF Found(items, k) THEN items[k].Object
                                    ELSE "nil"]]
    /\ IF p.todo = {k}
       THEN /\ proc' = [proc EXCEPT ![c] = IdleProc]
            /\ done' = [done EXCEPT ![c] = [NoneDone EXCEPT !.op = "Flush"]]
       ELSE /\ proc' = [proc EXCEPT ![c].todo = p.todo \ {k}]
            /\ done' = done
    /\ UNCHANGED <<now, config, onDeleted, onEvicted, chans, exp, jan, nops>>

\* ------------------------------------------------------ OnEvicted/OnDeleted
\* lines 311-315: a function is registered (which one is not modelled, so a
\* repeated registration would change nothing)
OnEvicted ==
    /\ ~onEvicted
    /\ nops = 0
    /\ onEvicted' = TRUE
    /\ Quiet
    /\ UNCHANGED <<now, config, items, onDeleted, chans, exp, proc, jan, nops,
                   lastWrite, done>>

\* lines 317-321
OnDeleted ==
    /\ ~onDeleted
    /\ nops = 0
    /\ onDeleted' = TRUE
    /\ Quiet
    /\ UNCHANGED <<now, config, items, onEvicted, chans, exp, proc, jan, nops,
                   lastWrite, done>>

\* ---------------------------------------------------------------- janitor
\* lines 542-547 and 554-559: insert key k into bucket t, creating it if absent
Insert(e, t, k) ==
    IF Found(e, t) THEN Store(e, t, e[t] \cup {k}) ELSE Store(e, t, {k})

\* lines 549-552 and 561-564: delete key k from bucket t if the bucket exists
Discard(e, t, k) ==
    IF Found(e, t) THEN Store(e, t, e[t] \ {k}) ELSE e

JanitorAdd_KeepsEvent ==
    /\ jan.pc = "select"
    /\ metaAdd # <<>>
    /\ LET lm == Head(metaAdd) IN exp' = Insert(exp, lm.Expiration, lm.Key)
    /\ metaAdd' = metaAdd
    /\ Quiet
    /\ UNCHANGED <<now, config, items, onDeleted, onEvicted, metaUpdate,
                   metaDelete, proc, jan, nops, lastWrite, done>>

\* lines 541-547: case lm := <-kv.metaAdd
JanitorAdd ==
    /\ jan.pc = "select"
    /\ metaAdd # <<>>
    /\ LET lm == Head(metaAdd) IN exp' = Insert(exp, lm.Expiration, lm.Key)
    /\ metaAdd' = Tail(metaAdd)
    /\ Quiet
    /\ UNCHANGED <<now, config, items, onDeleted, onEvicted, metaUpdate,
                   metaDelete, proc, jan, nops, lastWrite, done>>

\* lines 548-559: case mu := <-kv.metaUpdate
JanitorUpdate ==
    /\ jan.pc = "select"
    /\ metaUpdate # <<>>
    /\ LET mu == Head(metaUpdate) IN
         exp' = Insert(Discard(exp, mu.PriorExpiration, mu.Key),
                       mu.Expiration, mu.Key)
    /\ metaUpdate' = Tail(metaUpdate)
    /\ Quiet
    /\ UNCHANGED <<now, config, items, onDeleted, onEvicted, metaAdd,
                   metaDelete, proc, jan, nops, lastWrite, done>>

\* lines 560-564: case md := <-kv.metaDelete
JanitorDelete ==
    /\ jan.pc = "select"
    /\ metaDelete # <<>>
    /\ LET md == Head(metaDelete) IN exp' = Discard(exp, md.Expiration, md.Key)
    /\ metaDelete' = Tail(metaDelete)
    /\ Quiet
    /\ UNCHANGED <<now, config, items, onDeleted, onEvicted, metaAdd,
                   metaUpdate, proc, jan, nops, lastWrite, done>>

\* line 565: the default case is taken only when no channel has an event
NoEvent == metaAdd = <<>> /\ metaUpdate = <<>> /\ metaDelete = <<>>

\* line 513: the buckets DeleteExpired may pick: expired and not empty
Due == {t \in DOMAIN exp : t < now /\ exp[t] # {}}

\* lines 507-513, 528: a pass that finds no bucket to process: expired keeps
\* its zero value and delete(kv.exp, expired) deletes bucket 0
SweepNothing ==
    /\ jan.pc = "select"
    /\ NoEvent
    /\ Due = {}
    /\ exp' = Remove(exp, 0)
    /\ Quiet
    /\ UNCHANGED <<now, config, items, onDeleted, onEvicted, chans, proc, jan,
                   nops, lastWrite, done>>

\* lines 507-514, 523-524: the range over kv.exp (in Go's unspecified order)
\* stops at the first bucket that is expired and not empty
SweepBegin(t) ==
    /\ jan.pc = "select"
    /\ NoEvent
    /\ t \in Due
    /\ jan' = [IdleJan EXCEPT !.pc = "sweepLoad", !.expired = t, !.todo = exp[t]]
    /\ Quiet
    /\ UNCHANGED <<now, config, items, onDeleted, onEvicted, chans, exp, proc,
                   nops, lastWrite, done>>

\* the janitor's state after the key it was working on is finished: the next
\* key of the bucket, or (line 528) delete(kv.exp, expired) and back to select
SweepNext(k) ==
    /\ jan' = IF jan.todo = {k} THEN IdleJan
              ELSE [jan EXCEPT !.pc = "sweepLoad", !.todo = jan.todo \ {k},
                               !.key = "", !.item = ZeroItem,
                               !.origin = "none"]
    /\ exp' = IF jan.todo = {k} THEN Remove(exp, jan.expired) ELSE exp

\* lines 514-516 with 414-418, 420-422: deleteInner's Load for the next key k
\* of the bucket; a key that is absent is an error, and line 518 skips it
SweepLoad(k) ==
    /\ jan.pc = "sweepLoad"
    /\ k \in jan.todo
    /\ fired' = DeleteInnerFired("sweep", k)
    /\ removed' = {}
    /\ IF Found(items, k)
       THEN /\ jan' = [jan EXCEPT !.pc = "sweepDelete", !.key = k,
                                  !.item = items[k],
                                  !.origin = lastWrite[k].op]
            /\ exp' = exp
       ELSE SweepNext(k)
    /\ UNCHANGED <<now, config, items, onDeleted, onEvicted, chans, proc, nops,
                   lastWrite, done>>

\* lines 518-520: the onEvicted callback spawned after a deleteInner without
\* error, with the key and the Expiration of the Item deleteInner returned
SweepFired(k, loaded) ==
    LET itm == DeleteInnerResult(loaded) IN
    IF onEvicted
    THEN {Invocation("onEvicted", itm.Key, <<"int64", itm.Expiration>>,
                     "sweep", k, loaded, jan.origin)}
    ELSE {}

\* line 419 (kv.items.Delete), line 423, lines 518-520
SweepDelete ==
    /\ jan.pc = "sweepDelete"
    /\ items' = Remove(items, jan.key)
    /\ removed' = Removal("sweep", jan.key)
    /\ fired' = SweepFired(jan.key, jan.item)
    /\ SweepNext(jan.key)
    /\ UNCHANGED <<now, config, onDeleted, onEvicted, chans, proc, nops,
                   lastWrite, done>>

JanitorNext ==
    \/ JanitorAdd
    \/ JanitorUpdate
    \/ JanitorDelete
    \/ SweepNothing
    \/ \E t \in DOMAIN exp : SweepBegin(t)
    \/ \E k \in Keys : SweepLoad(k)
    \/ SweepDelete

\* ------------------------------------------------------------------ clock
Tick ==
    /\ now < MaxTime
    /\ now' = now + 1
    /\ Quiet
    /\ UNCHANGED <<config, items, onDeleted, onEvicted, chans, exp, proc, jan,
                   nops, lastWrite, done>>

\* ------------------------------------------------------------------- Next
TTLs == {DefaultExpiration, NoExpiration} \cup (1..MaxTTL)

\* caller c starts a call
CallerBegin(c) ==
    \/ \E k \in Keys, v \in Values, ttl \in TTLs : SetLoad(c, k, v, ttl)
    \/ \E k \in Keys, v \in Values : UpdateLoad(c, k, v)
    \/ \E k \in Keys : DeleteLoad(c, k)
    \/ FlushBegin(c)

\* caller c takes the next step of the call it is in
CallerStep(c) ==
    \/ SetStore(c)
    \/ SetSendAdd(c)
    \/ SetSendUpdate(c)
    \/ UpdateStore(c)
    \/ UpdateSend(c)
    \/ DeleteDelete(c)
    \/ DeleteSend(c)
    \/ \E k \in Keys : FlushStep(c, k)

CallerNext(c) == CallerBegin(c) \/ CallerStep(c)

\* one caller, the janitor and the clock
Next ==
    \/ OnEvicted
    \/ OnDeleted
    \/ CallerNext(1)
    \/ JanitorNext
    \/ Tick

Spec == Init /\ [][Next]_vars

\* the same system, constructed with cleanupInterval = NoExpiration
NoCleanupSpec == NoCleanupInit /\ [][Next]_vars

\* The same system with the scheduling the Go runtime gives it: the janitor
\* goroutine keeps running, a caller that started a call is scheduled until
\* the call returns, and time passes.
FairSpec ==
    /\ Init
    /\ [][Next]_vars
    /\ WF_vars(JanitorNext)
    /\ WF_vars(CallerStep(1))
    /\ WF_vars(Tick)

\* --------------------------------------------- two callers racing on a key
\* the key the two callers race on, and the item it holds when they start
RaceKey == "a"

InitialItem ==
    [Key |-> RaceKey, Object |-> "v1", Expiration |-> 1 + (MaxTTL + 1)]

\* The state after New(MaxTTL + 1, 1), the registration of both callbacks and
\* a Set(RaceKey, "v1", DefaultExpiration) made at clock 1 by the goroutine
\* that built the store, once the janitor has applied its Added event.
RaceInit ==
    /\ now = 1
    /\ defaultExpiration = MaxTTL + 1
    /\ cleanupInterval = 1
    /\ items = Store(EmptyMap, RaceKey, InitialItem)
    /\ onDeleted = TRUE
    /\ onEvicted = TRUE
    /\ metaAdd = <<>>
    /\ metaUpdate = <<>>
    /\ metaDelete = <<>>
    /\ exp = Insert(EmptyMap, InitialItem.Expiration, RaceKey)
    /\ proc = [c \in Callers |-> IdleProc]
    /\ jan = IdleJan
    /\ nops = 1
    /\ fired = {}
    /\ removed = {}
    /\ lastWrite = [k \in Keys |->
                      IF k = RaceKey
                      THEN [op |-> "Set", value |-> InitialItem.Object,
                            exp |-> InitialItem.Expiration]
                      ELSE NoWrite]
    /\ done = [c \in Callers |-> NoneDone]

\* the ttl arguments the racing Sets use: every expiration is finite
FiniteTTLs == {DefaultExpiration} \cup (1..MaxTTL)

\* caller c, which has made no call yet, starts its one call on RaceKey
RaceBegin(c) ==
    \/ \E v \in Values, ttl \in FiniteTTLs :
          done[c].op = "none" /\ SetLoad(c, RaceKey, v, ttl)
    \/ \E v \in Values : done[c].op = "none" /\ UpdateLoad(c, RaceKey, v)
    \/ done[c].op = "none" /\ DeleteLoad(c, RaceKey)

\* caller c takes the next step of its Set, Update or Delete
WriterStep(c) ==
    \/ SetStore(c)
    \/ SetSendAdd(c)
    \/ SetSendUpdate(c)
    \/ UpdateStore(c)
    \/ UpdateSend(c)
    \/ DeleteDelete(c)
    \/ DeleteSend(c)

\* the janitor's select takes an index event
IndexNext == JanitorAdd \/ JanitorUpdate \/ JanitorDelete

\* Two callers, each making one call on RaceKey, and the janitor, all within
\* one clock reading: every expiration is after it, so no bucket is due and
\* the janitor only applies index events.
RaceNext ==
    \/ \E c \in Callers : RaceBegin(c)
    \/ \E c \in Callers : WriterStep(c)
    \/ IndexNext

RaceSpec == RaceInit /\ [][RaceNext]_vars

\* ------------------------------------------------- two concurrent writers
\* The state after New(MaxTTL + 1, 1) and the registration of both callbacks.
WritersInit ==
    /\ now = 1
    /\ defaultExpiration = MaxTTL + 1
    /\ cleanupInterval = 1
    /\ items = EmptyMap
    /\ onDeleted = TRUE
    /\ onEvicted = TRUE
    /\ metaAdd = <<>>
    /\ metaUpdate = <<>>
    /\ metaDelete = <<>>
    /\ exp = EmptyMap
    /\ proc = [c \in Callers |-> IdleProc]
    /\ jan = IdleJan
    /\ nops = 0
    /\ fired = {}
    /\ removed = {}
    /\ lastWrite = [k \in Keys |-> NoWrite]
    /\ done = [c \in Callers |-> NoneDone]

\* caller c starts a Set, an Update or a Delete (on RaceKey: the channels are
\* shared by all keys, so the calls on one key fill them as any calls do)
WriterBegin(c) ==
    \/ \E v \in Values, ttl \in TTLs : SetLoad(c, RaceKey, v, ttl)
    \/ \E v \in Values : UpdateLoad(c, RaceKey, v)
    \/ DeleteLoad(c, RaceKey)

\* Every caller writing concurrently, and the janitor, within one clock
\* reading (the buckets of never-expiring items are due at any reading).
WritersNext ==
    \/ \E c \in Callers : WriterBegin(c)
    \/ \E c \in Callers : WriterStep(c)
    \/ JanitorNext

\* The Go scheduler keeps running the janitor goroutine and every caller
\* that is inside a call and able to take its next step.
WritersSpec ==
    /\ WritersInit
    /\ [][WritersNext]_vars
    /\ WF_vars(JanitorNext)
    /\ \A c \in Callers : WF_vars(WriterStep(c))

\* ================================================================ claims
\* C1: a never-expiring item is visible: while the last write to k is
\* Set(k, v, NoExpiration), Get(k) returns (v, true) and IsExist(k) is true.
C1_NeverExpiringVisible ==
    \A k \in Keys :
        (lastWrite[k].op = "Set" /\ lastWrite[k].exp = 0)
            => (Get(k) = <<lastWrite[k].value, TRUE>> /\ IsExist(k))

\* C2: expiry is enforced on read: once the clock is past the expiresAt of the
\* item a Set with a finite ttl stored (an Update keeps that expiresAt),
\* Get(k) reports not found and IsExist(k) is false, swept or not.
C2_ExpiredInvisible ==
    \A k \in Keys :
        (/\ lastWrite[k].op \in {"Set", "Update"}
         /\ lastWrite[k].exp # 0
         /\ now > lastWrite[k].exp)
            => (Get(k) = <<"nil", FALSE>> /\ ~IsExist(k))

\* C2's case: an expired item that is still physically in the Store
C2_Witness ==
    \E k \in Keys :
        /\ lastWrite[k].op = "Set"
        /\ lastWrite[k].exp # 0
        /\ now > lastWrite[k].exp
        /\ Found(items, k)
        /\ items[k].Expiration = lastWrite[k].exp

\* C3: visibility does not depend on sweep timing: while the last write to k
\* is Set(k, v, ttl) and the clock is strictly before its expiresAt, Get(k)
\* returns (v, true); and the sweeper never removes an item whose stored
\* expiresAt is still in the future.
C3_VisibleBeforeExpiry ==
    /\ \A k \in Keys :
        (/\ lastWrite[k].op = "Set"
         /\ lastWrite[k].exp # 0
         /\ now < lastWrite[k].exp)
            => Get(k) = <<lastWrite[k].value, TRUE>>
    /\ \A r \in removed : r.by = "sweep" => ~(r.item.Expiration > now)

\* C4: never-expiring items are outside the index: no bucket with timestamp 0
\* exists, and the sweeper never removes an item whose expiresAt is 0.
C4_NoZeroBucket ==
    /\ ~Found(exp, 0)
    /\ \A r \in removed : r.by = "sweep" => r.item.Expiration # 0

\* C6: for every item the sweeper removes, the on-evicted callback is invoked
\* exactly once, with that item's key and that item's stored value.
C6_EvictedOnceWithItem ==
    \A r \in removed :
        r.by = "sweep" =>
            /\ Cardinality({f \in fired : f.fn = "onEvicted"}) = 1
            /\ \A f \in fired :
                 f.fn = "onEvicted" =>
                     f.key = r.key /\ f.arg = <<"object", r.item.Object>>

\* C7: with cleanupInterval = NoExpiration the janitor performs no eviction
\* pass: no step of the sweeper removes an item or fires a callback.
C7_NoEvictionPass ==
    cleanupInterval = NoExpiration =>
        /\ \A r \in removed : r.by # "sweep"
        /\ \A f \in fired : f.by # "sweep"

\* the item the last write stored for k is a Set's, with a finite ttl, and it
\* is physically in the Store
StoredBySet(k) ==
    /\ lastWrite[k].op = "Set"
    /\ lastWrite[k].exp # 0
    /\ Found(items, k)

\* no call is in flight, no index event is pending, and the janitor is in its
\* select with no bucket left to sweep: only a new call can change the Store
Quiescent ==
    /\ \A c \in Callers : proc[c].pc = "idle"
    /\ NoEvent
    /\ jan.pc = "select"
    /\ Due = {}

\* C5: sweep eventually evicts: with the sweeper enabled, an item a Set
\* stored with a finite ttl and nobody wrote since is physically removed after
\* its expiresAt has passed: once the sweeper has nothing left to do, the
\* expired item is not in the Store.
C5_SweepEvicts ==
    \A k \in Keys :
        (/\ cleanupInterval # NoExpiration
         /\ Quiescent
         /\ lastWrite[k].op = "Set"
         /\ lastWrite[k].exp # 0
         /\ lastWrite[k].exp < now)
            => ~Found(items, k)

\* C5 as the behaviours see it under fair scheduling: the item is eventually
\* removed, unless it is written, deleted or flushed first.
C5_SweepEventuallyEvicts ==
    \A k \in Keys : StoredBySet(k) ~> ~StoredBySet(k)

\* a step in which the caller's call returned NotFound at once
ReturnsNotFound(op) ==
    /\ proc[1].pc = "idle"
    /\ nops' = nops + 1
    /\ proc'[1].pc = "idle"
    /\ done'[1].op = op
    /\ done'[1].ret = "NotFound"

\* C8: Delete(k) on an absent key returns NotFound, leaves the Store
\* unchanged, fires no callback and emits no index event; a Delete(k) that
\* finds the key succeeds and removes the item (expired or not), and a second
\* Delete(k) right after it returns NotFound.
C8_DeleteTwice ==
    /\ [](/\ (done[1].op = "Delete" /\ ~done[1].found) => done[1].ret = "NotFound"
          /\ (done[1].op = "Delete" /\ done[1].found) => done[1].ret = "nil"
          /\ proc[1].pc = "DeleteSend" => ~Found(items, proc[1].key)
          /\ (done[1].op = "Delete" /\ done[1].second) => done[1].ret = "NotFound")
    /\ [][ReturnsNotFound("Delete")
            => (items' = items /\ chans' = chans /\ fired' = {} /\ removed' = {})]_vars

\* C8's case: the second of two consecutive Delete(k) has returned NotFound
C8_Witness ==
    /\ done[1].op = "Delete"
    /\ done[1].second
    /\ done[1].ret = "NotFound"
    /\ proc[1].pc = "idle"

\* C9: Update(k, v2) on a present key replaces only the value: the item keeps
\* its expiresAt, and while that Update is the last write to k and the item has
\* not expired Get(k) returns (v2, true).
C9_UpdateKeepsExpiry ==
    /\ \A k \in Keys :
         (proc[1].pc = "UpdateSend" /\ proc[1].key = k /\ Found(items, k))
            => /\ items[k].Expiration = proc[1].prior.Expiration
               /\ items[k].Object = proc[1].item.Object
    /\ \A k \in Keys :
         (/\ lastWrite[k].op = "Update"
          /\ (lastWrite[k].exp = 0 \/ now < lastWrite[k].exp))
            => Get(k) = <<lastWrite[k].value, TRUE>>

\* C10: Flush removes every entry without callbacks: a key Flush visited and
\* nobody wrote since is not in the Store, so ItemCountAll() is 0 once Flush
\* has returned; Flush's own steps invoke no callback, and no later step
\* invokes one for an item it loaded after Flush removed the key.
C10_FlushSilent ==
    /\ \A k \in Keys : lastWrite[k].op = "Flush" => ~Found(items, k)
    /\ (\A k \in Keys : lastWrite[k].op = "Flush") => ItemCountAll = 0
    /\ \A r \in removed : r.by = "Flush" => fired = {}
    /\ \A f \in fired : f.origin # "Flush"

\* C10's case: Flush has returned after removing the item of k, and a sweep
\* that found k still listed in its bucket has passed over it
C10_Witness ==
    \E k \in Keys :
        /\ done[1].op = "Flush"
        /\ lastWrite[k].op = "Flush"
        /\ lastWrite[k].value # "nil"
        /\ jan.pc = "sweepLoad"
        /\ Found(exp, jan.expired)
        /\ k \in exp[jan.expired] \ jan.todo
        /\ ItemCountAll = 0

\* the index events waiting in the three channels
Pending ==
    {metaAdd[i] : i \in 1..Len(metaAdd)}
        \cup {metaUpdate[i] : i \in 1..Len(metaUpdate)}
        \cup {metaDelete[i] : i \in 1..Len(metaDelete)}

\* the janitor takes the event at the head of channel ch in this step while an
\* event emitted earlier for the same key is still waiting
Overtakes(ch) ==
    /\ jan.pc = "select"
    /\ ch # <<>>
    /\ ch' = Tail(ch)
    /\ \E m \in Pending : m.of = Head(ch).of /\ m.n < Head(ch).n

\* C12: per-key event ordering: the janitor applies the index events of one
\* key in the order in which the Store mutations that emitted them were
\* applied, whatever their kinds: it never takes an event while an earlier
\* event of the same key is still waiting in a channel.
C12_EventOrder ==
    [][~Overtakes(metaAdd) /\ ~Overtakes(metaUpdate) /\ ~Overtakes(metaDelete)]_vars

\* the buckets of the index that list key k
BucketsOf(k) == {t \in DOMAIN exp : k \in exp[t]}

\* C13: in every reachable state of the expiration index, each key is a
\* member of at most one bucket.
C13_OneBucketPerKey ==
    \A k \in Keys : Cardinality(BucketsOf(k)) <= 1

\* C14: a successful Delete(k) of an item with expiresAt = t emits a Removed
\* event carrying exactly (k, t): the step in which Delete sends its event
\* appends (k, t) to metaDelete, t the expiration of the item it removed.
C14_RemovedCarriesItem ==
    [][\A c \in Callers :
          (proc[c].pc = "DeleteSend" /\ proc'[c].pc = "idle")
             => /\ Len(metaDelete') = Len(metaDelete) + 1
                /\ metaDelete'[Len(metaDelete')].Key = proc[c].key
                /\ metaDelete'[Len(metaDelete')].Expiration
                       = proc[c].prior.Expiration]_vars

\* C17: the index never keeps an empty bucket: between janitor steps every
\* bucket in the index has at least one member.
C17_NoEmptyBucket ==
    jan.pc = "select" => \A t \in DOMAIN exp : exp[t] # {}

\* C18: the callbacks are tied to the removal paths: a Delete that finds the
\* key invokes on-deleted once with (k, removed value) and never on-evicted;
\* a removal by the sweeper invokes on-evicted and never on-deleted.
C18_CallbackPerPath ==
    /\ \A f \in fired :
          /\ f.by = "Delete" =>
                /\ f.fn = "onDeleted"
                /\ f.key = f.target
                /\ f.arg = <<"object", f.item.Object>>
                /\ Cardinality(fired) = 1
          /\ f.by = "sweep" => f.fn = "onEvicted"
    /\ \A r \in removed : r.by = "sweep" => \E f \in fired : f.fn = "onEvicted"

\* channel ch received exactly one more event in this step
SentOn(ch) == Len(ch') = Len(ch) + 1 /\ SubSeq(ch', 1, Len(ch)) = ch

\* C15: Set(k, v, ttl) always overwrites the item for k and emits exactly
\* one index event: Added(k, new) if its Load found k absent, Updated(k,
\* prior, new) if k was present with another expiration, and no event if k was
\* present with the same expiration.  Step by step: the Load changes nothing;
\* the Store puts the new item under k, sends nothing, and returns only when
\* no event is due; the send that ends the call appends that one event.
C15_SetEmitsOneEvent ==
    [][\A c \in Callers :
         LET p == proc[c]
             q == proc'[c]
             changed == p.item.Expiration # p.prior.Expiration
         IN
         /\ (p.pc = "idle" /\ q.pc = "SetStore")
               => /\ items' = items /\ chans' = chans
                  /\ q.found = Found(items, q.key)
                  /\ q.found => q.prior = items[q.key]
                  /\ q.item.Key = q.key
         /\ (p.pc = "SetStore" /\ q # p)
               => /\ Found(items', p.key) /\ items'[p.key] = p.item
                  /\ \A k \in DOMAIN items \ {p.key} :
                        Found(items', k) /\ items'[k] = items[k]
                  /\ chans' = chans
                  /\ q.pc = IF ~p.found THEN "SetSendAdd"
                            ELSE IF changed THEN "SetSendUpdate" ELSE "idle"
         /\ (p.pc = "SetSendAdd" /\ q # p)
               => /\ q.pc = "idle"
                  /\ SentOn(metaAdd)
                  /\ metaAdd'[Len(metaAdd')].Key = p.key
                  /\ metaAdd'[Len(metaAdd')].Expiration = p.item.Expiration
                  /\ metaUpdate' = metaUpdate /\ metaDelete' = metaDelete
         /\ (p.pc = "SetSendUpdate" /\ q # p)
               => /\ q.pc = "idle"
                  /\ SentOn(metaUpdate)
                  /\ metaUpdate'[Len(metaUpdate')].Key = p.key
                  /\ metaUpdate'[Len(metaUpdate')].PriorExpiration
                        = p.prior.Expiration
                  /\ metaUpdate'[Len(metaUpdate')].Expiration
                        = p.item.Expiration
                  /\ metaAdd' = metaAdd /\ metaDelete' = metaDelete]_vars

\* C15's case: three Sets of one key have returned, the first having sent
\* Added, the second Updated, and the third, which asked for the expiration
\* the item already had, nothing (the first two events are still waiting, so
\* an event of the third call would be waiting behind one of them)
C15_Witness ==
    \E k \in Keys :
        /\ nops = 3
        /\ proc[1].pc = "idle"
        /\ done[1].op = "Set" /\ done[1].key = k
        /\ \E m \in Pending : m.of = k /\ m.n = 1 /\ m \in {metaAdd[i] : i \in 1..Len(metaAdd)}
        /\ \E m \in Pending : m.of = k /\ m.n = 2 /\ m \in {metaUpdate[i] : i \in 1..Len(metaUpdate)}
        /\ \A m \in Pending : m.n # 3
        /\ lastWrite[k].op = "Set"

\* C16: one sweep pass processes every bucket whose timestamp is at or before
\* now: when a pass ends, no bucket with a member and a timestamp at or
\* before now remains in the index; and no step of a pass changes a bucket
\* whose timestamp is in the future.
C16_SweepsAllDue ==
    /\ [][(jan.pc # "select" /\ jan'.pc = "select")
            => \A t \in DOMAIN exp' : t <= now' => exp'[t] = {}]_vars
    /\ [][jan.pc # "select"
            => \A t \in DOMAIN exp :
                  t > now => (Found(exp', t) /\ exp'[t] = exp[t])]_vars

\* C19: a key listed in the bucket being swept but no longer in the Store is
\* skipped silently: the step in which the sweeper reaches it fires no
\* callback, changes nothing in the Store, and goes on to the remaining keys
\* of the bucket (or ends the pass if there are none).
C19_MissingKeySkipped ==
    [][\A k \in Keys :
          (jan.pc = "sweepLoad" /\ k \in jan.todo /\ ~Found(items, k)
             /\ SweepLoad(k))
            => /\ fired' = {}
               /\ removed' = {}
               /\ items' = items
               /\ IF jan.todo = {k}
                  THEN jan'.pc = "select"
                  ELSE jan'.pc = "sweepLoad" /\ jan'.todo = jan.todo \ {k}]_vars

\* C19's case: the sweeper is in a bucket of two keys, one of which a Delete
\* has removed from the Store before the sweeper reached it
C19_Witness ==
    \E k \in Keys :
        /\ jan.pc = "sweepLoad"
        /\ k \in jan.todo
        /\ Cardinality(jan.todo) = 2
        /\ ~Found(items, k)
        /\ lastWrite[k].op = "Delete"

\* what the Store holds for RaceKey: present or not, the value, the expiration
Held(m) ==
    IF Found(m, RaceKey)
    THEN <<TRUE, m[RaceKey].Object, m[RaceKey].Expiration>>
    ELSE <<FALSE, "nil", 0>>

\* the return value and the content after a call of kind op, with value v and
\* expiration e, runs alone on content h
Alone(h, op, v, e) ==
    IF op = "Set" THEN <<"nil", <<TRUE, v, e>>>>
    ELSE IF ~h[1] THEN <<"NotFound", h>>
    ELSE IF op = "Update" THEN <<"nil", <<TRUE, v, h[3]>>>>
    ELSE <<"nil", <<FALSE, "nil", 0>>>>

\* the two return values and the final content when call x runs alone and
\* then call y, from the initial item; each call is <<kind, value, expiration>>
InOrder(x, y) ==
    LET first == Alone(Held(Store(EmptyMap, RaceKey, InitialItem)), x[1], x[2], x[3])
        then == Alone(first[2], y[1], y[2], y[3])
    IN <<first[1], then[1], then[2]>>

\* the calls of kind op the callers can make
CallsOf(op) == {op} \X Values \X {now + t : t \in 1..(MaxTTL + 1)}

\* C11: concurrent operations on the same key are linearizable: when the two
\* callers' calls on the key have both returned, their return values and the
\* final content of the key are those of one of the two sequential orders of
\* the two calls (for some arguments the calls can have had).
C11_Linearizable ==
    (/\ \A c \in Callers : proc[c].pc = "idle" /\ done[c].op # "none")
        => \E x \in CallsOf(done[1].op), y \in CallsOf(done[2].op) :
              \/ <<done[1].ret, done[2].ret, Held(items)>> = InOrder(x, y)
              \/ <<done[2].ret, done[1].ret, Held(items)>> = InOrder(y, x)

\* caller c is at a send on a channel that is full
Blocked(c) ==
    \/ proc[c].pc \in {"SetSendAdd", "UpdateSend"} /\ ~CanSend(metaAdd)
    \/ proc[c].pc = "SetSendUpdate" /\ ~CanSend(metaUpdate)
    \/ proc[c].pc = "DeleteSend" /\ ~CanSend(metaDelete)

====
